---- MODULE Spec2Model ----
(***************************************************************************)
(* A model of the Optra vendor backend of OpenSlide                        *)
(* (src/src/openslide-vendor-optra.c): format detection (optra_detect),    *)
(* pyramid construction (optra_open), region painting (paint_region,       *)
(* read_tile) and teardown (destroy).                                      *)
(*                                                                         *)
(* The backend's own functions are translated statement by statement.      *)
(* What they call in the rest of the library (the TIFF handle cache, the   *)
(* tile cache, the grid, libtiff, libxml2) is modelled by its contract:    *)
(* a call that can fail fails nondeterministically, and a field of the     *)
(* file is fixed the first time the code reads it.                         *)
(***************************************************************************)
EXTENDS Integers, Sequences, FiniteSets, TLC

VARIABLES
  tl,        \* the container description handed to detect/open (struct _openslide_tifflike *)
  dpc,       \* optra_detect: position of the call in progress ("idle" between calls)
  dxml,      \* optra_detect: the local `xml`
  ddoc,      \* optra_detect: the local `doc`
  dret,      \* optra_detect: the value returned by the last call ("none" before it)
  derr,      \* optra_detect: the caller's GError slot, as the sequence of errors set on it
  dcalls,    \* number of optra_detect calls that have returned
  dfirst,    \* result and error of the first optra_detect call that returned
  liveDocs,  \* xmlDoc objects allocated by _openslide_xml_parse and not yet freed
  osr,       \* the Slide Handle (openslide_t): levels, level_count, data, ops, properties, associated_images
  opc,       \* optra_open: position of the call ("idle" before it, "done" after it returned)
  oret,      \* optra_open: the value returned ("none" before the return)
  oerr,      \* optra_open: the caller's GError slot, as the sequence of errors set on it
  dirs,      \* the directories of the file the TIFF handle has read so far (dirs[d + 1] is directory d)
  curdir,    \* TIFFCurrentDirectory(tiff)
  tn_dir,    \* optra_open: the local `tn_dir`
  level_array, \* optra_open: the local GPtrArray of levels
  arr,       \* the level container: "none", "array" (GPtrArray alive), "unwrapped" (owned by osr), "freed"
  cached_tiff, \* optra_open: the local handle: "unset", "NULL", "held", "put"
  pool,      \* the TIFF handle cache `tc`: times created and destroyed, handles out, handles returned
  heap,      \* per directory: allocations and frees of its struct level and of its grid
  topdir,    \* the two directories passed to _openslide_tifflike_init_properties_and_hash
  pt,        \* per painting thread: the position and the locals of its paint_region / read_tile call
  cache,     \* the tile cache osr->cache: the entries ever created, each with its key, data, references
  hist       \* history: calls started, and per tile the last read_tile that returned with its entry still cached

detectVars == <<dpc, dxml, ddoc, dret, derr, dcalls, dfirst>>
openVars == <<osr, opc, oret, oerr, dirs, curdir, tn_dir, level_array, arr,
              cached_tiff, pool, heap, topdir>>
paintVars == <<pt, cache, hist>>
vars == <<tl, dpc, dxml, ddoc, dret, derr, dcalls, dfirst, liveDocs,
          osr, opc, oret, oerr, dirs, curdir, tn_dir, level_array, arr,
          cached_tiff, pool, heap, topdir, pt, cache, hist>>

----------------------------------------------------------------------------
(* Bounds of the model.                                                    *)

\* optra_detect is called at most this many times on one input
MaxDetectCalls == 3

----------------------------------------------------------------------------
(* The XML packet of directory 0.                                          *)
(* The text is a sequence of tokens: "<", an element name, attributes,     *)
(* "/>".  A token carries the characters it contributes to the text in n   *)
(* (a name) and v (an attribute's value).                                  *)

XML_ROOT_TAG == "ScanInfo"

Tok(k, n, v) == [k |-> k, n |-> n, v |-> v]
LT == Tok("lt", "", "")
END == Tok("end", "", "")
Name(n) == Tok("name", n, "")
Attr(n, v) == Tok("attr", n, v)

\* the packets a file may carry
XmlPackets ==
  { <<LT, Name("ScanInfo"), Attr("Magnification", "20"), Attr("PixelResolution", "0.25"),
      Attr("Barcode", ""), END>>,
    <<LT, Name("Other"), END>>,
    <<LT, Name("Other"), Attr("Scanner", "ScanInfo"), END>>,
    <<LT, Name("ScanInfo"), Attr("Magnification", "20")>>,
    <<LT, Name("Other")>>,
    <<>> }

\* strstr(xml, XML_ROOT_TAG): the marker occurs somewhere in the text
strstr(xml, tag) == \E i \in 1..Len(xml) : xml[i].n = tag \/ xml[i].v = tag

NoDoc == [ok |-> FALSE, root |-> "", attrs |-> <<>>]

\* _openslide_xml_parse: the document of a well-formed text, NoDoc (NULL) otherwise
WellFormed(xml) ==
  /\ Len(xml) >= 3
  /\ xml[1].k = "lt"
  /\ xml[2].k = "name"
  /\ xml[Len(xml)].k = "end"
  /\ \A i \in 3..(Len(xml) - 1) : xml[i].k = "attr"

xml_parse(xml) ==
  IF WellFormed(xml)
    THEN [ok |-> TRUE, root |-> xml[2].n, attrs |-> SubSeq(xml, 3, Len(xml) - 1)]
    ELSE NoDoc

\* get_initial_root_xml: TRUE (the root node) iff the root element is XML_ROOT_TAG
get_initial_root_xml(doc) == doc.root = XML_ROOT_TAG

\* the container descriptions: none (tl == NULL), or directory 0's tiled flag
\* and XML packet (hasXml = FALSE: the packet is absent or unreadable)
NoTL == [present |-> FALSE, tiled0 |-> FALSE, hasXml |-> FALSE, xml |-> <<>>]
Containers ==
  {NoTL} \cup
  { [present |-> TRUE, tiled0 |-> t, hasXml |-> TRUE, xml |-> x] :
      t \in BOOLEAN, x \in XmlPackets } \cup
  { [present |-> TRUE, tiled0 |-> t, hasXml |-> FALSE, xml |-> <<>>] : t \in BOOLEAN }

----------------------------------------------------------------------------
(* Error messages.                                                         *)

E_NOT_TIFF == "Not a TIFF file"
E_NOT_TILED == "TIFF is not tiled"
E_GET_BUFFER == "_openslide_tifflike_get_buffer failed"
E_NO_MARKER == "ScanInfo not in XMLPacket"
E_XML_PARSE == "_openslide_xml_parse failed"
E_ROOT == "Unrecognized root element in optrascan XML"

----------------------------------------------------------------------------
(* optra_detect, one action per statement.                                 *)

DetectReturn(ret, errs) ==
  /\ dpc' = "idle"
  /\ dret' = ret
  /\ derr' = errs
  /\ dcalls' = dcalls + 1
  /\ dfirst' = IF dcalls = 0 THEN [ret |-> ret, err |-> errs] ELSE dfirst

\* the caller enters optra_detect with an empty error slot
DetectCall ==
  /\ dpc = "idle"
  /\ dcalls < MaxDetectCalls
  /\ dpc' = "tl"
  /\ derr' = <<>>
  /\ dret' = "none"
  /\ UNCHANGED <<tl, dxml, ddoc, dcalls, dfirst, liveDocs>>
  /\ UNCHANGED <<openVars, paintVars>>

\* if (!tl)
DetectCheckTL ==
  /\ dpc = "tl"
  /\ IF ~tl.present
       THEN /\ DetectReturn(FALSE, Append(derr, E_NOT_TIFF))
       ELSE /\ dpc' = "tiled"
            /\ UNCHANGED <<dret, derr, dcalls, dfirst>>
  /\ UNCHANGED <<tl, dxml, ddoc, liveDocs>>
  /\ UNCHANGED <<openVars, paintVars>>

\* DetectCheckTiled without the test
DetectCheckTiled_skipped ==
  /\ dpc = "tiled"
  /\ dpc' = "xml"
  /\ UNCHANGED <<dret, derr, dcalls, dfirst>>
  /\ UNCHANGED <<tl, dxml, ddoc, liveDocs>>
  /\ UNCHANGED <<openVars, paintVars>>

\* if (!_openslide_tifflike_is_tiled(tl, 0))
DetectCheckTiled ==
  /\ dpc = "tiled"
  /\ IF ~tl.tiled0
       THEN /\ DetectReturn(FALSE, Append(derr, E_NOT_TILED))
       ELSE /\ dpc' = "xml"
            /\ UNCHANGED <<dret, derr, dcalls, dfirst>>
  /\ UNCHANGED <<tl, dxml, ddoc, liveDocs>>
  /\ UNCHANGED <<openVars, paintVars>>

\* xml = _openslide_tifflike_get_buffer(tl, 0, TIFFTAG_XMLPACKET, err); if (!xml)
DetectGetXml ==
  /\ dpc = "xml"
  /\ IF ~tl.hasXml
       THEN /\ DetectReturn(FALSE, Append(derr, E_GET_BUFFER))
            /\ UNCHANGED dxml
       ELSE /\ dpc' = "strstr"
            /\ dxml' = tl.xml
            /\ UNCHANGED <<dret, derr, dcalls, dfirst>>
  /\ UNCHANGED <<tl, ddoc, liveDocs>>
  /\ UNCHANGED <<openVars, paintVars>>

\* DetectCheckMarker without the marker test: the text goes straight to the parser
DetectCheckMarker_skipped ==
  /\ dpc = "strstr"
  /\ dpc' = "parse"
  /\ UNCHANGED <<dret, derr, dcalls, dfirst>>
  /\ UNCHANGED <<tl, dxml, ddoc, liveDocs>>
  /\ UNCHANGED <<openVars, paintVars>>

\* if (!strstr(xml, XML_ROOT_TAG))
DetectCheckMarker ==
  /\ dpc = "strstr"
  /\ IF ~strstr(dxml, XML_ROOT_TAG)
       THEN /\ DetectReturn(FALSE, Append(derr, E_NO_MARKER))
       ELSE /\ dpc' = "parse"
            /\ UNCHANGED <<dret, derr, dcalls, dfirst>>
  /\ UNCHANGED <<tl, dxml, ddoc, liveDocs>>
  /\ UNCHANGED <<openVars, paintVars>>

\* doc = _openslide_xml_parse(xml, err); if (!doc)
DetectParse ==
  /\ dpc = "parse"
  /\ IF ~xml_parse(dxml).ok
       THEN /\ DetectReturn(FALSE, Append(derr, E_XML_PARSE))
            /\ UNCHANGED <<ddoc, liveDocs>>
       ELSE /\ dpc' = "root"
            /\ ddoc' = xml_parse(dxml)
            /\ liveDocs' = liveDocs + 1
            /\ UNCHANGED <<dret, derr, dcalls, dfirst>>
  /\ UNCHANGED <<tl, dxml>>
  /\ UNCHANGED <<openVars, paintVars>>

\* DetectCheckRoot without the xmlFreeDoc of the rejecting branch
DetectCheckRoot_leak ==
  /\ dpc = "root"
  /\ IF ~get_initial_root_xml(ddoc)
       THEN /\ DetectReturn(FALSE, Append(derr, E_ROOT))
            /\ UNCHANGED liveDocs
       ELSE /\ DetectReturn(TRUE, derr)
            /\ liveDocs' = liveDocs - 1
  /\ ddoc' = NoDoc
  /\ UNCHANGED <<tl, dxml>>
  /\ UNCHANGED <<openVars, paintVars>>

\* if (!get_initial_root_xml(doc, err)) { xmlFreeDoc(doc); return false; }
\* xmlFreeDoc(doc); return true;
DetectCheckRoot ==
  /\ dpc = "root"
  /\ IF ~get_initial_root_xml(ddoc)
       THEN /\ DetectReturn(FALSE, Append(derr, E_ROOT))
            /\ liveDocs' = liveDocs - 1
       ELSE /\ DetectReturn(TRUE, derr)
            /\ liveDocs' = liveDocs - 1
  /\ ddoc' = NoDoc
  /\ UNCHANGED <<tl, dxml>>
  /\ UNCHANGED <<openVars, paintVars>>

optra_detect ==
  \/ DetectCall
  \/ DetectCheckTL
  \/ DetectCheckTiled
  \/ DetectGetXml
  \/ DetectCheckMarker
  \/ DetectParse
  \/ DetectCheckRoot

----------------------------------------------------------------------------
(* The directories of the file, as the TIFF handle of optra_open sees      *)
(* them.  TIFFReadDirectory fixes a directory's tiled flag and compression *)
(* code; the other fields are fixed when a TIFFGetField first reads them.  *)

MIN_THUMBNAIL_DIM == 500
FILETYPE_REDUCEDIMAGE == 1

\* the file holds at most this many directories
MaxDirs == 3

Unread == -1   \* a field no TIFFGetField has read yet
Absent == -2   \* a field the directory does not carry (TIFFGetField returns 0)

COMPRESSION_JPEG == 7
COMPRESSION_JP2000 == 34712
\* TIFFIsCODECConfigured(compression)
TIFFIsCODECConfigured(c) == c = COMPRESSION_JPEG

\* FILETYPE_PAGE alone, and FILETYPE_PAGE with FILETYPE_REDUCEDIMAGE
SubfileTypes == {Absent, 2, 3}
Dims == {Absent, 500, 600, 800}
Heights == {Absent, 500, 600}
Descriptions == {"-", "label", "thumbnail"}   \* "-": no description field
Compressions == {Absent, COMPRESSION_JPEG, COMPRESSION_JP2000}

\* a directory as TIFFReadDirectory leaves it (the compression code is a
\* property of the file, whether or not the walk goes on to read it)
NewDir(tiled, comp) ==
  [tiled |-> tiled, comp |-> comp, sub |-> Unread, desc |-> "?",
   w |-> Unread, h |-> Unread]

\* the directory the handle is positioned on
Cur == dirs[curdir + 1]

\* the values a TIFFGetField of a field can produce: the one already read,
\* or any the file may carry
Read(have, domain) == IF have = Unread THEN domain ELSE {have}
ReadDesc(have) == IF have = "?" THEN Descriptions ELSE {have}

----------------------------------------------------------------------------
(* The Slide Handle and the resources optra_open creates.                  *)

OsrInit ==
  [levels_set |-> FALSE, levels |-> <<>>, level_count |-> 0,
   data |-> "NULL", ops |-> "NULL",
   properties |-> {}, associated_images |-> {}]

DirIdx == 0..(MaxDirs - 1)
NoObj == [alloc |-> 0, free |-> 0]
HeapInit == [level |-> [d \in DirIdx |-> NoObj], grid |-> [d \in DirIdx |-> NoObj],
             data |-> NoObj]
PoolInit == [created |-> 0, destroyed |-> 0, out |-> 0, puts |-> 0]

Alloc(h, kind, d) == [h EXCEPT ![kind][d].alloc = @ + 1]
Free(h, kind, d) == [h EXCEPT ![kind][d].free = @ + 1]

\* g_hash_table_insert: the entry of the key is replaced
HashInsert(table, key, value) ==
  {e \in table : e.key # key} \cup {[key |-> key, value |-> value]}
HashHas(table, key) == \E e \in table : e.key = key
HashGet(table, key) == (CHOOSE e \in table : e.key = key).value

\* _openslide_duplicate_int_prop / _openslide_duplicate_double_prop: the
\* property is copied when the source exists and parses as a number
ParsesAsInt(v) == v \in {"20"}
ParsesAsDouble(v) == v \in {"20", "0.25"}
duplicate_int_prop(table, src, dest) ==
  IF HashHas(table, src) /\ ParsesAsInt(HashGet(table, src))
    THEN HashInsert(table, dest, HashGet(table, src))
    ELSE table
duplicate_double_prop(table, src, dest) ==
  IF HashHas(table, src) /\ ParsesAsDouble(HashGet(table, src))
    THEN HashInsert(table, dest, HashGet(table, src))
    ELSE table

\* the loop of parse_initial_xml: every attribute with a non-empty value
\* becomes the property "optra.<name>"
RECURSIVE CopyAttrs(_, _)
CopyAttrs(table, attrs) ==
  IF attrs = <<>> THEN table
  ELSE CopyAttrs(IF Head(attrs).v # ""
                   THEN HashInsert(table, <<"optra", Head(attrs).n>>, Head(attrs).v)
                   ELSE table,
                 Tail(attrs))

\* parse_initial_xml: [ok, errs (set by the callees), properties]
parse_initial_xml(table, xml) ==
  LET doc == xml_parse(xml) IN
  IF ~doc.ok THEN [ok |-> FALSE, errs |-> <<E_XML_PARSE>>, properties |-> table]
  ELSE IF ~get_initial_root_xml(doc)
    THEN [ok |-> FALSE, errs |-> <<E_ROOT>>, properties |-> table]
  ELSE
    LET t1 == CopyAttrs(table, doc.attrs)
        t2 == duplicate_int_prop(t1, <<"optra", "Magnification">>,
                                 <<"openslide", "objective-power">>)
        t3 == duplicate_double_prop(t2, <<"optra", "PixelResolution">>,
                                    <<"openslide", "mpp-x">>)
        t4 == duplicate_double_prop(t3, <<"optra", "PixelResolution">>,
                                    <<"openslide", "mpp-y">>)
    IN [ok |-> TRUE, errs |-> <<>>, properties |-> t4]

\* _openslide_tiff_add_associated_image, when it succeeds: the image of
\* directory d is stored under the name
add_associated_image(o, name, d) ==
  [o EXCEPT !.associated_images =
     {e \in @ : e.name # name} \cup {[name |-> name, dir |-> d]}]

E_TIFFCACHE == "_openslide_tiffcache_get failed"
E_XML_OPEN == "optra parse initial xml failed"
E_DESC == "reading image description failed."
E_ASSOC == "_openslide_tiff_add_associated_image failed"
E_WIDTH == "reading image width failed"
E_HEIGHT == "reading image height failed"
E_COMP_READ == "Can't read compression scheme"
E_COMP == "Unsupported TIFF compression"
E_LEVEL == "_openslide_tiff_level_init failed"
E_SET_DIR == "_openslide_tiff_set_dir failed"
E_THUMB == "adding last level as thumbnail failed"
E_HASH == "_openslide_tifflike_init_properties_and_hash failed"

\* width_compare with the two results exchanged (ascending order)
width_compare_ascending(a, b) ==
  IF a.image_w > b.image_w THEN 1
  ELSE IF a.image_w = b.image_w THEN 0
  ELSE -1

\* width_compare: negative when a sorts before b
width_compare(a, b) ==
  IF a.image_w > b.image_w THEN -1
  ELSE IF a.image_w = b.image_w THEN 0
  ELSE 1

\* g_ptr_array_sort(level_array, width_compare): the arrangements of the
\* array that the comparator accepts (qsort is not stable: every such
\* arrangement can result)
Perms(n) == {p \in [1..n -> 1..n] : \A i, j \in 1..n : i # j => p[i] # p[j]}
g_ptr_array_sort(a) ==
  { [i \in 1..Len(a) |-> a[p[i]]] : p \in
      {q \in Perms(Len(a)) :
         \A i, j \in 1..Len(a) : i < j => width_compare(a[q[i]], a[q[j]]) <= 0} }

----------------------------------------------------------------------------
(* optra_open.                                                             *)

OpenFrame == UNCHANGED <<tl, detectVars, paintVars>>

\* goto FAIL with the errors set on the way
GotoFail(errs) ==
  /\ opc' = "FAIL"
  /\ oerr' = oerr \o errs

\* level_array = g_ptr_array_new(); tc = _openslide_tiffcache_create(filename);
\* cached_tiff = _openslide_tiffcache_get(tc, err); if (!tiff) goto FAIL;
OpenStart ==
  /\ opc = "idle"
  /\ tl.present
  /\ dpc = "idle" /\ dcalls = 1
  /\ arr' = "array"
  /\ level_array' = <<>>
  /\ \/ /\ cached_tiff' = "held"
        /\ pool' = [pool EXCEPT !.created = @ + 1, !.out = @ + 1]
        /\ opc' = "xml"
        /\ \E comp \in Compressions : dirs' = <<NewDir(tl.tiled0, comp)>>
        /\ UNCHANGED oerr
     \/ /\ cached_tiff' = "NULL"
        /\ pool' = [pool EXCEPT !.created = @ + 1]
        /\ GotoFail(<<E_TIFFCACHE>>)
        /\ UNCHANGED dirs
  /\ UNCHANGED <<osr, oret, curdir, tn_dir, heap, topdir, liveDocs>>
  /\ OpenFrame

\* xml = _openslide_tifflike_get_buffer(...); if (!xml) goto FAIL;
\* if (!parse_initial_xml(osr, xml, err)) { g_set_error(...); goto FAIL; }
OpenParseXml ==
  /\ opc = "xml"
  /\ IF ~tl.hasXml
       THEN /\ GotoFail(<<E_GET_BUFFER>>)
            /\ UNCHANGED osr
       ELSE LET r == parse_initial_xml(osr.properties, tl.xml) IN
            IF ~r.ok
              THEN /\ GotoFail(r.errs \o <<E_XML_OPEN>>)
                   /\ UNCHANGED osr
              ELSE /\ osr' = [osr EXCEPT !.properties = r.properties]
                   /\ opc' = "tn_dir"
                   /\ UNCHANGED oerr
  /\ UNCHANGED <<oret, dirs, curdir, tn_dir, level_array, arr, cached_tiff,
                 pool, heap, topdir, liveDocs>>
  /\ OpenFrame

\* tn_dir starting one directory too far
OpenInitThumb_offByOne ==
  /\ opc = "tn_dir"
  /\ tn_dir' = curdir + 1
  /\ opc' = "dir"
  /\ UNCHANGED <<osr, oret, oerr, dirs, curdir, level_array, arr, cached_tiff,
                 pool, heap, topdir, liveDocs>>
  /\ UNCHANGED <<tl, detectVars, paintVars>>

\* tdir_t tn_dir = TIFFCurrentDirectory(tiff);
OpenInitThumb ==
  /\ opc = "tn_dir"
  /\ tn_dir' = curdir
  /\ opc' = "dir"
  /\ UNCHANGED <<osr, oret, oerr, dirs, curdir, level_array, arr, cached_tiff,
                 pool, heap, topdir, liveDocs>>
  /\ OpenFrame

\* if (!TIFFIsTiled(tiff)) continue;
DirNotTiled ==
  /\ opc = "dir"
  /\ ~Cur.tiled
  /\ opc' = "next"
  /\ UNCHANGED <<osr, oret, oerr, dirs, curdir, tn_dir, level_array, arr,
                 cached_tiff, pool, heap, topdir, liveDocs>>
  /\ OpenFrame

\* if (TIFFCurrentDirectory(tiff) != 0) is false: straight to the compression check
DirFirst ==
  /\ opc = "dir"
  /\ Cur.tiled
  /\ curdir = 0
  /\ opc' = "comp"
  /\ UNCHANGED <<osr, oret, oerr, dirs, curdir, tn_dir, level_array, arr,
                 cached_tiff, pool, heap, topdir, liveDocs>>
  /\ OpenFrame

\* if (!TIFFGetField(tiff, TIFFTAG_SUBFILETYPE, &subfiletype)) continue;
DirNoSubfiletype ==
  /\ opc = "dir"
  /\ Cur.tiled
  /\ curdir # 0
  /\ \E s \in Read(Cur.sub, SubfileTypes) :
       /\ s = Absent
       /\ dirs' = [dirs EXCEPT ![curdir + 1].sub = s]
  /\ opc' = "next"
  /\ UNCHANGED <<osr, oret, oerr, curdir, tn_dir, level_array, arr,
                 cached_tiff, pool, heap, topdir, liveDocs>>
  /\ OpenFrame

\* (subfiletype & FILETYPE_REDUCEDIMAGE), on a 32-bit value
IsReduced(subfiletype) == (subfiletype \div FILETYPE_REDUCEDIMAGE) % 2 = 1

\* DirAssociated without the continue: the directory goes on to the
\* compression check
DirAssociated_noContinue ==
  /\ opc = "dir"
  /\ Cur.tiled
  /\ curdir # 0
  /\ \E s \in Read(Cur.sub, SubfileTypes), image_desc \in ReadDesc(Cur.desc) :
       /\ s # Absent
       /\ ~IsReduced(s)
       /\ dirs' = [dirs EXCEPT ![curdir + 1].sub = s, ![curdir + 1].desc = image_desc]
       /\ IF image_desc = "-"
            THEN /\ opc' = "FAIL"
                 /\ oerr' = Append(oerr, "reading image description failed.")
                 /\ UNCHANGED osr
            ELSE /\ osr' = add_associated_image(osr, image_desc, curdir)
                 /\ opc' = "comp"
                 /\ UNCHANGED oerr
  /\ UNCHANGED <<oret, curdir, tn_dir, level_array, arr,
                 cached_tiff, pool, heap, topdir, liveDocs>>
  /\ UNCHANGED <<tl, detectVars, paintVars>>

\* if (!(subfiletype & FILETYPE_REDUCEDIMAGE)) { read the description, add
\* the directory as an associated image; continue; }
DirAssociated ==
  /\ opc = "dir"
  /\ Cur.tiled
  /\ curdir # 0
  /\ \E s \in Read(Cur.sub, SubfileTypes), image_desc \in ReadDesc(Cur.desc) :
       /\ s # Absent
       /\ ~IsReduced(s)
       /\ dirs' = [dirs EXCEPT ![curdir + 1].sub = s, ![curdir + 1].desc = image_desc]
       /\ IF image_desc = "-"
            THEN /\ GotoFail(<<E_DESC>>)
                 /\ UNCHANGED osr
            ELSE \/ /\ GotoFail(<<E_ASSOC>>)
                    /\ UNCHANGED osr
                 \/ /\ osr' = add_associated_image(osr, image_desc, curdir)
                    /\ opc' = "next"
                    /\ UNCHANGED oerr
  /\ UNCHANGED <<oret, curdir, tn_dir, level_array, arr,
                 cached_tiff, pool, heap, topdir, liveDocs>>
  /\ OpenFrame

\* the thumbnail test with || for &&
IsThumbnailSize_either(imwidth, imheight) ==
  (imwidth > 500) \/ (imheight > 500)

\* (imwidth > MIN_THUMBNAIL_DIM) && (imheight > MIN_THUMBNAIL_DIM)
IsThumbnailSize(imwidth, imheight) ==
  (imwidth > MIN_THUMBNAIL_DIM) /\ (imheight > MIN_THUMBNAIL_DIM)

\* else { read width and height; if both exceed MIN_THUMBNAIL_DIM,
\* tn_dir = TIFFCurrentDirectory(tiff); }
DirReduced ==
  /\ opc = "dir"
  /\ Cur.tiled
  /\ curdir # 0
  /\ \E s \in Read(Cur.sub, SubfileTypes), imwidth \in Read(Cur.w, Dims) :
       /\ s # Absent
       /\ IsReduced(s)
       /\ IF imwidth = Absent
            THEN /\ dirs' = [dirs EXCEPT ![curdir + 1].sub = s, ![curdir + 1].w = imwidth]
                 /\ GotoFail(<<E_WIDTH>>)
                 /\ UNCHANGED tn_dir
            ELSE \E imheight \in Read(Cur.h, Heights) :
                 /\ dirs' = [dirs EXCEPT ![curdir + 1].sub = s, ![curdir + 1].w = imwidth,
                                         ![curdir + 1].h = imheight]
                 /\ IF imheight = Absent
                      THEN /\ GotoFail(<<E_HEIGHT>>)
                           /\ UNCHANGED tn_dir
                      ELSE /\ tn_dir' = IF IsThumbnailSize(imwidth, imheight)
                                          THEN curdir ELSE tn_dir
                           /\ opc' = "comp"
                           /\ UNCHANGED oerr
  /\ UNCHANGED <<osr, oret, curdir, level_array, arr,
                 cached_tiff, pool, heap, topdir, liveDocs>>
  /\ OpenFrame

\* DirCompression without the TIFFIsCODECConfigured test
DirCompression_unchecked ==
  /\ opc = "comp"
  /\ IF Cur.comp = Absent THEN GotoFail(<<"Can't read compression scheme">>)
     ELSE /\ opc' = "level"
          /\ UNCHANGED oerr
  /\ UNCHANGED <<osr, oret, dirs, curdir, tn_dir, level_array, arr,
                 cached_tiff, pool, heap, topdir, liveDocs>>
  /\ UNCHANGED <<tl, detectVars, paintVars>>

\* if (!TIFFGetField(tiff, TIFFTAG_COMPRESSION, &compression)) goto FAIL;
\* if (!TIFFIsCODECConfigured(compression)) goto FAIL;
DirCompression ==
  /\ opc = "comp"
  /\ LET compression == Cur.comp IN
       /\ IF compression = Absent THEN GotoFail(<<E_COMP_READ>>)
          ELSE IF ~TIFFIsCODECConfigured(compression) THEN GotoFail(<<E_COMP>>)
          ELSE /\ opc' = "level"
               /\ UNCHANGED oerr
  /\ UNCHANGED <<osr, oret, dirs, curdir, tn_dir, level_array, arr,
                 cached_tiff, pool, heap, topdir, liveDocs>>
  /\ OpenFrame

\* l = g_slice_new0(struct level); if (!_openslide_tiff_level_init(...))
\* { g_slice_free(struct level, l); goto FAIL; }
\* l->grid = _openslide_grid_create_simple(...); g_ptr_array_add(level_array, l);
DirLevel ==
  /\ opc = "level"
  /\ \/ /\ heap' = Free(Alloc(heap, "level", curdir), "level", curdir)
        /\ GotoFail(<<E_LEVEL>>)
        /\ UNCHANGED <<dirs, level_array>>
     \/ \E image_w \in Read(Cur.w, Dims \ {Absent}) :
        /\ dirs' = [dirs EXCEPT ![curdir + 1].w = image_w]
        /\ heap' = Alloc(Alloc(heap, "level", curdir), "grid", curdir)
        /\ level_array' = Append(level_array, [dir |-> curdir, image_w |-> image_w])
        /\ opc' = "next"
        /\ UNCHANGED oerr
  /\ UNCHANGED <<osr, oret, curdir, tn_dir, arr,
                 cached_tiff, pool, topdir, liveDocs>>
  /\ OpenFrame

\* while (TIFFReadDirectory(tiff)): the next directory, if the file has one
NextDir ==
  /\ opc = "next"
  /\ \/ /\ curdir + 1 < MaxDirs
        /\ \E tiled \in BOOLEAN, comp \in Compressions :
             dirs' = Append(dirs, NewDir(tiled, comp))
        /\ curdir' = curdir + 1
        /\ opc' = "dir"
     \/ /\ opc' = "thumb"
        /\ UNCHANGED <<dirs, curdir>>
  /\ UNCHANGED <<osr, oret, oerr, tn_dir, level_array, arr,
                 cached_tiff, pool, heap, topdir, liveDocs>>
  /\ OpenFrame

\* OpenThumbnail going on to the sort even when the registration failed
OpenThumbnail_unchecked ==
  /\ opc = "thumb"
  /\ \/ /\ opc' = "FAIL"
        /\ oerr' = oerr \o <<"_openslide_tiff_set_dir failed", "adding last level as thumbnail failed">>
        /\ UNCHANGED <<osr, curdir>>
     \/ /\ curdir' = tn_dir
        /\ \/ UNCHANGED osr
           \/ osr' = [osr EXCEPT !.associated_images =
                        {e \in @ : e.name # "thumbnail"} \cup
                        {[name |-> "thumbnail", dir |-> tn_dir]}]
        /\ opc' = "sort"
        /\ UNCHANGED oerr
  /\ UNCHANGED <<oret, dirs, tn_dir, level_array, arr,
                 cached_tiff, pool, heap, topdir, liveDocs>>
  /\ UNCHANGED <<tl, detectVars, paintVars>>

\* _openslide_tiff_set_dir(tiff, tn_dir, err), failing: g_set_error again; goto FAIL;
\* _openslide_tiff_add_associated_image(osr, "thumbnail", tc, TIFFCurrentDirectory(tiff), ...)
OpenThumbnail ==
  /\ opc = "thumb"
  /\ \/ /\ GotoFail(<<E_SET_DIR, E_THUMB>>)
        /\ UNCHANGED <<osr, curdir>>
     \/ /\ curdir' = tn_dir
        /\ \/ /\ GotoFail(<<E_ASSOC>>)
              /\ UNCHANGED osr
           \/ /\ osr' = add_associated_image(osr, "thumbnail", tn_dir)
              /\ opc' = "sort"
              /\ UNCHANGED oerr
  /\ UNCHANGED <<oret, dirs, tn_dir, level_array, arr,
                 cached_tiff, pool, heap, topdir, liveDocs>>
  /\ OpenFrame

\* top_level taken from the head of the array
TopLevel_first(a) == a[1]

\* struct level *top_level = level_array->pdata[level_array->len - 1];
TopLevel(a) == a[Len(a)]

\* no call of _openslide_tifflike_init_properties_and_hash yet
NoHashArgs == <<-1, -1>>

\* _openslide_tifflike_init_properties_and_hash(osr, tl, quickhash1, dir, 0, err),
\* failing or storing the fingerprint property
InitPropertiesAndHash(dir) ==
  /\ topdir' = <<dir, 0>>
  /\ \/ /\ GotoFail(<<E_HASH>>)
        /\ UNCHANGED osr
     \/ /\ osr' = [osr EXCEPT !.properties =
                     HashInsert(@, <<"openslide", "quickhash-1">>, "hash")]
        /\ opc' = "commit"
        /\ UNCHANGED oerr

\* g_ptr_array_sort(level_array, width_compare); top_level = last element;
\* if (!_openslide_tifflike_init_properties_and_hash(...)) goto FAIL;
OpenSortHash ==
  /\ opc = "sort"
  /\ level_array # <<>>
  /\ \E sorted \in g_ptr_array_sort(level_array) :
       /\ level_array' = sorted
       /\ InitPropertiesAndHash(TopLevel(sorted).dir)
  /\ UNCHANGED <<oret, dirs, curdir, tn_dir, arr,
                 cached_tiff, pool, heap, liveDocs>>
  /\ OpenFrame

\* the same statements on an empty array: pdata[len - 1] reads outside the
\* array (len is unsigned, pdata is NULL): the process dies, or some word
\* is taken for a level and its dir field is passed on
GarbageDirs == {0, MaxDirs}
OpenSortHashEmpty ==
  /\ opc = "sort"
  /\ level_array = <<>>
  /\ \/ /\ opc' = "crashed"
        /\ UNCHANGED <<osr, oerr, topdir>>
     \/ \E d \in GarbageDirs : InitPropertiesAndHash(d)
  /\ UNCHANGED <<oret, dirs, curdir, tn_dir, level_array, arr,
                 cached_tiff, pool, heap, liveDocs>>
  /\ OpenFrame

\* _openslide_cached_tiff_put(&cached_tiff): a handle that was obtained goes
\* back to the pool; a NULL handle is left alone
cached_tiff_put(p, h) ==
  IF h = "held" THEN [p EXCEPT !.out = @ - 1, !.puts = @ + 1] ELSE p

\* unwrap the array, allocate the private data, store levels, level_count,
\* data and ops on osr, put the handle, keep the pool in data->tc; return true
OpenCommit ==
  /\ opc = "commit"
  /\ osr' = [osr EXCEPT !.levels_set = TRUE, !.levels = level_array,
                        !.level_count = Len(level_array),
                        !.data = "optra_ops_data", !.ops = "optra_ops"]
  /\ level_array' = <<>>
  /\ arr' = "unwrapped"
  /\ heap' = [heap EXCEPT !.data.alloc = @ + 1]
  /\ pool' = cached_tiff_put(pool, cached_tiff)
  /\ cached_tiff' = IF cached_tiff = "held" THEN "put" ELSE cached_tiff
  /\ opc' = "done"
  /\ oret' = TRUE
  /\ UNCHANGED <<oerr, dirs, curdir, tn_dir, topdir, liveDocs>>
  /\ OpenFrame

\* the loop of FAIL without the _openslide_grid_destroy
RECURSIVE FreeLevels_noGrid(_, _)
FreeLevels_noGrid(h, a) ==
  IF a = <<>> THEN h
  ELSE FreeLevels_noGrid([h EXCEPT !["level"][Head(a).dir].free = @ + 1], Tail(a))

\* the loop of FAIL: _openslide_grid_destroy(l->grid); g_slice_free(struct level, l);
RECURSIVE FreeLevels(_, _)
FreeLevels(h, a) ==
  IF a = <<>> THEN h
  ELSE FreeLevels(Free(Free(h, "grid", Head(a).dir), "level", Head(a).dir), Tail(a))

\* FAIL: free the levels of the array and the array, put the handle,
\* destroy the pool; return false
OpenFail ==
  /\ opc = "FAIL"
  /\ IF arr = "array"
       THEN /\ heap' = FreeLevels(heap, level_array)
            /\ arr' = "freed"
            /\ level_array' = <<>>
       ELSE UNCHANGED <<heap, arr, level_array>>
  /\ pool' = [cached_tiff_put(pool, cached_tiff) EXCEPT !.destroyed = @ + 1]
  /\ cached_tiff' = IF cached_tiff = "held" THEN "put" ELSE cached_tiff
  /\ opc' = "done"
  /\ oret' = FALSE
  /\ UNCHANGED <<osr, oerr, dirs, curdir, tn_dir, topdir, liveDocs>>
  /\ OpenFrame

optra_open ==
  \/ OpenStart
  \/ OpenParseXml
  \/ OpenInitThumb
  \/ DirNotTiled
  \/ DirFirst
  \/ DirNoSubfiletype
  \/ DirAssociated
  \/ DirReduced
  \/ DirCompression
  \/ DirLevel
  \/ NextDir
  \/ OpenThumbnail
  \/ OpenSortHash
  \/ OpenSortHashEmpty
  \/ OpenCommit
  \/ OpenFail

----------------------------------------------------------------------------
(* Painting: paint_region and read_tile, called by concurrent threads on   *)
(* an opened slide.                                                        *)

\* paint_region is called at most this many times in all
MaxPaints == 2

\* the painting threads
Painters == {1, 2}

\* the grid of a level (_openslide_grid_create_simple): one row of 512-pixel tiles
TilesAcross(level) == (level.image_w + 511) \div 512
TileRange(a, b) == [i \in 1..(b - a + 1) |-> <<a + i - 1, 0>>]
\* the tiles a requested region can cover, in the order the grid visits them
Regions(level) ==
  {TileRange(a, b) : a \in 0..(TilesAcross(level) - 1), b \in 0..(TilesAcross(level) - 1)}
    \ {<<>>}

Keys == {<<l, c, 0>> : l \in 1..MaxDirs, c \in 0..1}
NoKey == <<0, 0, 0>>
NoData == [key |-> NoKey, clipped |-> FALSE]

\* _openslide_tiff_read_tile then _openslide_tiff_clip_tile: the pixels of
\* the tile in the file, those of the last column cut at the image's edge
Decoded(key) == [key |-> key, clipped |-> FALSE]
Clipped(data, level) ==
  [data EXCEPT !.clipped = (data.key[2] = TilesAcross(level) - 1 /\ level.image_w % 512 # 0)]

\* The cache: a slot per entry that exists.  An entry exists while the cache
\* holds it (inCache) or a caller references it (refs > 0); when neither
\* holds, its pixel buffer is freed and the slot is empty again.
CacheSlots == 1..(Cardinality(Keys) + Cardinality(Painters))
EmptySlot == [live |-> FALSE, key |-> NoKey, data |-> NoData, refs |-> 0, inCache |-> FALSE]
CacheInit == [i \in CacheSlots |-> EmptySlot]

\* entries nothing holds any more are freed
Sweep(c) ==
  [i \in CacheSlots |-> IF c[i].live /\ (c[i].inCache \/ c[i].refs > 0) THEN c[i] ELSE EmptySlot]

\* _openslide_cache_get: the entry stored under the key, 0 when there is none
CacheLookup(key) ==
  IF \E i \in CacheSlots : cache[i].inCache /\ cache[i].key = key
    THEN CHOOSE i \in CacheSlots : cache[i].inCache /\ cache[i].key = key
    ELSE 0

FreeSlot(c) == CHOOSE i \in CacheSlots : ~c[i].live /\ \A j \in CacheSlots : j < i => c[j].live

\* _openslide_cache_put: a new entry, referenced once by the caller, takes
\* the place of the one stored under the key
CachePut(c, slot, key, data) ==
  Sweep([i \in CacheSlots |->
           IF i = slot
             THEN [live |-> TRUE, key |-> key, data |-> data, refs |-> 1, inCache |-> TRUE]
           ELSE IF c[i].key = key THEN [c[i] EXCEPT !.inCache = FALSE]
           ELSE c[i]])

\* _openslide_cache_entry_unref
CacheUnref(c, slot) == Sweep([c EXCEPT ![slot].refs = @ - 1])

E_READ_TILE == "_openslide_tiff_read_tile failed"
E_CLIP == "_openslide_tiff_clip_tile failed"

\* what a read_tile call found at its lookup: whether an earlier read_tile of
\* the tile had returned true with no eviction of the tile since, the
\* decodes that call made and the pixels it painted
NoPrior == [settled |-> FALSE, ndec |-> 0, data |-> NoData]
Prior(key) ==
  IF hist.settled[key]
    THEN [settled |-> TRUE, ndec |-> hist.last[key].ndec, data |-> hist.last[key].data]
    ELSE NoPrior

\* balloc, bfree: the g_slice_alloc and g_slice_free1 calls the current
\* read_tile call has made for its pixel buffer
PainterIdle ==
  [pc |-> "idle", level |-> 0, todo |-> <<>>, key |-> NoKey, tiledata |-> NoData,
   entry |-> 0, handle |-> FALSE, success |-> FALSE, canvas |-> <<>>, err |-> <<>>,
   ret |-> "none", held |-> 0, ndec |-> 0, prior |-> NoPrior,
   evicted |-> FALSE, balloc |-> 0, bfree |-> 0]

\* per tile, until the cache first evicts it: the lookups made before any
\* insertion of the tile (early), the tile decodes that succeeded (dec) and
\* the insertions in the cache (ins)
HistInit ==
  [calls |-> 0,
   settled |-> [k \in Keys |-> FALSE],
   last |-> [k \in Keys |-> [ndec |-> 0, data |-> NoData]],
   evicted |-> [k \in Keys |-> FALSE],
   early |-> [k \in Keys |-> 0],
   dec |-> [k \in Keys |-> 0],
   ins |-> [k \in Keys |-> 0]]

\* the record of a lookup, of a successful decode and of an insertion
NoteLookup(h, key) ==
  IF ~h.evicted[key] /\ h.ins[key] = 0 THEN [h EXCEPT !.early[key] = @ + 1] ELSE h
NoteDecode(h, key) ==
  IF ~h.evicted[key] THEN [h EXCEPT !.dec[key] = @ + 1] ELSE h
NoteInsert(h, key) ==
  IF ~h.evicted[key] THEN [h EXCEPT !.ins[key] = @ + 1] ELSE h

PaintFrame ==
  UNCHANGED <<tl, detectVars, liveDocs, osr, opc, oret, oerr, dirs, curdir, tn_dir,
              level_array, arr, cached_tiff, heap, topdir>>

\* _openslide_grid_paint_region: read_tile is called for each tile of the
\* region in turn; when none is left the grid returns true
GridAdvance(p) ==
  IF p.todo = <<>>
    THEN [p EXCEPT !.pc = "put", !.success = TRUE, !.key = NoKey, !.tiledata = NoData,
                   !.entry = 0, !.ndec = 0, !.prior = NoPrior, !.evicted = FALSE,
                   !.balloc = 0, !.bfree = 0]
    ELSE [p EXCEPT !.pc = "lookup",
                   !.key = <<p.level, Head(p.todo)[1], Head(p.todo)[2]>>,
                   !.todo = Tail(@),
                   !.tiledata = NoData, !.entry = 0,
                   !.ndec = 0, !.prior = NoPrior, !.evicted = FALSE,
                   !.balloc = 0, !.bfree = 0]

\* a thread enters paint_region for a region of a level of the opened slide
PaintCall(t) ==
  /\ pt[t].pc = "idle"
  /\ opc = "done" /\ oret = TRUE
  /\ hist.calls < MaxPaints
  /\ \E l \in 1..osr.level_count :
       \E region \in Regions(osr.levels[l]) :
         pt' = [pt EXCEPT ![t] = [PainterIdle EXCEPT !.pc = "get", !.level = l,
                                                     !.todo = region]]
  /\ hist' = [hist EXCEPT !.calls = @ + 1]
  /\ UNCHANGED <<cache, pool>>
  /\ PaintFrame

\* tiff = _openslide_tiffcache_get(data->tc, err); if (tiff.tiff == NULL) return false;
\* success = _openslide_grid_paint_region(l->grid, cr, tiff.tiff, ...);
PaintGetHandle(t) ==
  /\ pt[t].pc = "get"
  /\ \/ /\ pt' = [pt EXCEPT ![t].pc = "idle", ![t].ret = "false", ![t].todo = <<>>,
                            ![t].err = Append(@, E_TIFFCACHE)]
        /\ UNCHANGED pool
     \/ /\ pt' = [pt EXCEPT ![t] = GridAdvance([pt[t] EXCEPT !.handle = TRUE])]
        /\ pool' = [pool EXCEPT !.out = @ + 1]
  /\ UNCHANGED <<cache, hist>>
  /\ PaintFrame

\* ReadTileLookup taking every lookup for a miss
ReadTileLookup_alwaysMiss(t) ==
  /\ pt[t].pc = "lookup"
  /\ pt' = [pt EXCEPT ![t].pc = "miss", ![t].prior = Prior(pt[t].key)]
  /\ hist' = NoteLookup(hist, pt[t].key)
  /\ UNCHANGED <<cache, pool>>
  /\ UNCHANGED <<tl, detectVars, liveDocs, osr, opc, oret, oerr, dirs, curdir, tn_dir,
                 level_array, arr, cached_tiff, heap, topdir>>

\* ReadTileLookup asking the cache for (level, tile_row, tile_col)
ReadTileLookup_swappedKey(t) ==
  /\ pt[t].pc = "lookup"
  /\ LET i == CacheLookup(<<pt[t].key[1], pt[t].key[3], pt[t].key[2]>>) IN
     IF i # 0
       THEN /\ pt' = [pt EXCEPT ![t].pc = "draw", ![t].tiledata = cache[i].data,
                                ![t].entry = i, ![t].held = @ + 1,
                                ![t].prior = Prior(pt[t].key)]
            /\ cache' = [cache EXCEPT ![i].refs = @ + 1]
       ELSE /\ pt' = [pt EXCEPT ![t].pc = "miss",
                                ![t].prior = Prior(pt[t].key)]
            /\ UNCHANGED cache
  /\ hist' = NoteLookup(hist, pt[t].key)
  /\ UNCHANGED pool
  /\ PaintFrame

\* read_tile: tiledata = _openslide_cache_get(osr->cache, level, tile_col, tile_row, &cache_entry);
ReadTileLookup(t) ==
  /\ pt[t].pc = "lookup"
  /\ LET i == CacheLookup(pt[t].key) IN
     IF i # 0
       THEN /\ pt' = [pt EXCEPT ![t].pc = "draw", ![t].tiledata = cache[i].data,
                                ![t].entry = i, ![t].held = @ + 1,
                                ![t].prior = Prior(pt[t].key)]
            /\ cache' = [cache EXCEPT ![i].refs = @ + 1]
       ELSE /\ pt' = [pt EXCEPT ![t].pc = "miss",
                                ![t].prior = Prior(pt[t].key)]
            /\ UNCHANGED cache
  /\ hist' = NoteLookup(hist, pt[t].key)
  /\ UNCHANGED pool
  /\ PaintFrame

\* ReadTileFails returning without the g_slice_free1
ReadTileFails_noFree(t, e) ==
  /\ pt' = [pt EXCEPT ![t].pc = "put", ![t].success = FALSE, ![t].todo = <<>>,
                      ![t].ndec = @ + 1, ![t].err = Append(@, e),
                      ![t].balloc = @ + 1]
  /\ hist' = IF e = E_CLIP THEN NoteDecode(hist, pt[t].key) ELSE hist
  /\ UNCHANGED cache

\* read_tile returning false from the miss branch: g_slice_free1(tw * th * 4, tiledata);
\* return false; the grid hands the failure to paint_region
ReadTileFails(t, e) ==
  /\ pt' = [pt EXCEPT ![t].pc = "put", ![t].success = FALSE, ![t].todo = <<>>,
                      ![t].ndec = @ + 1, ![t].err = Append(@, e),
                      ![t].balloc = @ + 1, ![t].bfree = @ + 1]
  /\ hist' = IF e = E_CLIP THEN NoteDecode(hist, pt[t].key) ELSE hist
  /\ UNCHANGED cache

\* read_tile, if (!tiledata): allocate the buffer, decode the tile, clip it,
\* put it in the cache; a failing decode or clip frees the buffer
ReadTileMiss(t) ==
  /\ pt[t].pc = "miss"
  /\ \/ ReadTileFails(t, E_READ_TILE)
     \/ ReadTileFails(t, E_CLIP)
     \/ LET data == Clipped(Decoded(pt[t].key), osr.levels[pt[t].level])
            slot == FreeSlot(cache) IN
        /\ cache' = CachePut(cache, slot, pt[t].key, data)
        /\ pt' = [pt EXCEPT ![t].pc = "draw", ![t].tiledata = data,
                            ![t].entry = slot, ![t].held = @ + 1,
                            ![t].ndec = @ + 1, ![t].balloc = @ + 1]
        /\ hist' = NoteInsert(NoteDecode(hist, pt[t].key), pt[t].key)
  /\ UNCHANGED pool
  /\ PaintFrame

\* ReadTileDraw releasing the cache entry before it paints
ReadTileDraw_afterUnref(t) ==
  /\ pt[t].pc = "draw"
  /\ cache' = CacheUnref(cache, pt[t].entry)
  /\ pt' = [pt EXCEPT ![t].pc = "unref", ![t].held = @ - 1,
                      ![t].canvas = Append(@, pt[t].tiledata)]
  /\ UNCHANGED <<hist, pool>>
  /\ PaintFrame

\* read_tile: the surface of tiledata is painted on the drawing context
ReadTileDraw(t) ==
  /\ pt[t].pc = "draw"
  /\ pt' = [pt EXCEPT ![t].pc = "unref", ![t].canvas = Append(@, pt[t].tiledata)]
  /\ UNCHANGED <<cache, hist, pool>>
  /\ PaintFrame

\* read_tile: _openslide_cache_entry_unref(cache_entry); return true;
\* the grid goes on to the next tile
ReadTileUnref(t) ==
  /\ pt[t].pc = "unref"
  /\ cache' = CacheUnref(cache, pt[t].entry)
  /\ pt' = [pt EXCEPT ![t] = GridAdvance([pt[t] EXCEPT !.held = @ - 1])]
  /\ hist' = IF pt[t].evicted THEN hist
             ELSE [hist EXCEPT !.settled[pt[t].key] = TRUE,
                               !.last[pt[t].key] = [ndec |-> pt[t].ndec,
                                                    data |-> pt[t].tiledata]]
  /\ UNCHANGED pool
  /\ PaintFrame

\* PaintPutHandle returning early, without the put, when the grid failed
PaintPutHandle_earlyReturn(t) ==
  /\ pt[t].pc = "put"
  /\ pool' = IF pt[t].success THEN [pool EXCEPT !.out = @ - 1, !.puts = @ + 1] ELSE pool
  /\ pt' = [pt EXCEPT ![t] = [PainterIdle EXCEPT
                                !.ret = IF pt[t].success THEN "true" ELSE "false",
                                !.canvas = pt[t].canvas, !.err = pt[t].err]]
  /\ UNCHANGED <<cache, hist>>
  /\ PaintFrame

\* paint_region: _openslide_cached_tiff_put(&tiff); return success;
PaintPutHandle(t) ==
  /\ pt[t].pc = "put"
  /\ pool' = [pool EXCEPT !.out = @ - 1, !.puts = @ + 1]
  /\ pt' = [pt EXCEPT ![t] = [PainterIdle EXCEPT
                                !.ret = IF pt[t].success THEN "true" ELSE "false",
                                !.canvas = pt[t].canvas, !.err = pt[t].err]]
  /\ UNCHANGED <<cache, hist>>
  /\ PaintFrame

paint_region(t) ==
  \/ PaintCall(t)
  \/ PaintGetHandle(t)
  \/ ReadTileLookup(t)
  \/ ReadTileMiss(t)
  \/ ReadTileDraw(t)
  \/ ReadTileUnref(t)
  \/ PaintPutHandle(t)

\* the cache drops an entry to make room (some thread's _openslide_cache_put)
Evict ==
  /\ \E i \in CacheSlots :
       /\ cache[i].inCache
       /\ cache' = Sweep([cache EXCEPT ![i].inCache = FALSE])
       /\ hist' = [hist EXCEPT !.settled[cache[i].key] = FALSE,
                               !.last[cache[i].key] = [ndec |-> 0, data |-> NoData],
                               !.evicted[cache[i].key] = TRUE,
                               !.early[cache[i].key] = 0,
                               !.dec[cache[i].key] = 0,
                               !.ins[cache[i].key] = 0]
       /\ pt' = [t \in Painters |->
                   IF pt[t].key = cache[i].key /\ pt[t].pc \in {"draw", "unref"}
                     THEN [pt[t] EXCEPT !.evicted = TRUE] ELSE pt[t]]
  /\ UNCHANGED pool
  /\ PaintFrame

----------------------------------------------------------------------------
(* Teardown: destroy, called once by the owner of an opened slide when no  *)
(* other operation on it is in progress.                                   *)

\* the loop of destroy: _openslide_grid_destroy(l->grid); g_slice_free(struct level, l);
RECURSIVE DestroyLevels(_, _)
DestroyLevels(h, levels) ==
  IF levels = <<>> THEN h
  ELSE DestroyLevels(Free(Free(h, "grid", Head(levels).dir), "level", Head(levels).dir),
                     Tail(levels))

\* g_free(osr->levels): the container the array was unwrapped into
FreeContainer(a) == IF a = "unwrapped" THEN "freed" ELSE "double-free"

\* destroy without the g_free(osr->levels)
destroy_keepsContainer ==
  /\ opc = "done" /\ oret = TRUE
  /\ \A t \in Painters : pt[t].pc = "idle"
  /\ pool' = [pool EXCEPT !.destroyed = @ + 1]
  /\ heap' = DestroyLevels([heap EXCEPT !.data.free = @ + 1],
                           SubSeq(osr.levels, 1, osr.level_count))
  /\ opc' = "destroyed"
  /\ UNCHANGED <<osr, oret, oerr, dirs, curdir, tn_dir, level_array, arr, cached_tiff,
                 topdir, liveDocs>>
  /\ UNCHANGED <<tl, detectVars, paintVars>>

\* destroy: _openslide_tiffcache_destroy(data->tc); g_slice_free(data);
\* every level of osr->levels and its grid freed; g_free(osr->levels)
destroy ==
  /\ opc = "done" /\ oret = TRUE
  /\ \A t \in Painters : pt[t].pc = "idle"
  /\ pool' = [pool EXCEPT !.destroyed = @ + 1]
  /\ heap' = DestroyLevels([heap EXCEPT !.data.free = @ + 1],
                           SubSeq(osr.levels, 1, osr.level_count))
  /\ arr' = FreeContainer(arr)
  /\ opc' = "destroyed"
  /\ UNCHANGED <<osr, oret, oerr, dirs, curdir, tn_dir, level_array, cached_tiff,
                 topdir, liveDocs>>
  /\ UNCHANGED <<tl, detectVars, paintVars>>

----------------------------------------------------------------------------
(* Specifications.                                                         *)

DetectIdle ==
  /\ dpc = "idle"
  /\ dxml = <<>>
  /\ ddoc = NoDoc
  /\ dret = "none"
  /\ derr = <<>>
  /\ dcalls = 0
  /\ dfirst = [ret |-> "none", err |-> <<>>]
  /\ liveDocs = 0

OpenIdle ==
  /\ osr = OsrInit
  /\ opc = "idle"
  /\ oret = "none"
  /\ oerr = <<>>
  /\ dirs = <<>>
  /\ curdir = 0
  /\ tn_dir = 0
  /\ level_array = <<>>
  /\ arr = "none"
  /\ cached_tiff = "unset"
  /\ pool = PoolInit
  /\ heap = HeapInit
  /\ topdir = NoHashArgs

PaintIdle ==
  /\ pt = [t \in Painters |-> PainterIdle]
  /\ cache = CacheInit
  /\ hist = HistInit

Init ==
  /\ tl \in Containers
  /\ DetectIdle
  /\ OpenIdle
  /\ PaintIdle

\* optra_detect called any number of times on one input
SpecDetect == Init /\ [][optra_detect]_vars

\* the library's sequence: optra_detect once, then optra_open on the same input
OpenNext ==
  \/ (dcalls = 0 /\ optra_detect)
  \/ optra_open

SpecOpen == Init /\ [][OpenNext]_vars

\* a slide of two levels as optra_open leaves it: directory 0 (800 wide) and
\* a reduced-resolution directory 1 (500 x 500), the thumbnail on directory 0
Opened ==
  /\ tl = [present |-> TRUE, tiled0 |-> TRUE, hasXml |-> TRUE,
           xml |-> <<LT, Name("ScanInfo"), Attr("Magnification", "20"),
                     Attr("PixelResolution", "0.25"), Attr("Barcode", ""), END>>]
  /\ dpc = "idle" /\ dxml = tl.xml /\ ddoc = NoDoc /\ dret = TRUE /\ derr = <<>>
  /\ dcalls = 1 /\ dfirst = [ret |-> TRUE, err |-> <<>>] /\ liveDocs = 0
  /\ osr = [levels_set |-> TRUE,
            levels |-> <<[dir |-> 0, image_w |-> 800], [dir |-> 1, image_w |-> 500]>>,
            level_count |-> 2, data |-> "optra_ops_data", ops |-> "optra_ops",
            properties |-> {[key |-> <<"optra", "Magnification">>, value |-> "20"],
                            [key |-> <<"optra", "PixelResolution">>, value |-> "0.25"],
                            [key |-> <<"openslide", "objective-power">>, value |-> "20"],
                            [key |-> <<"openslide", "mpp-x">>, value |-> "0.25"],
                            [key |-> <<"openslide", "mpp-y">>, value |-> "0.25"],
                            [key |-> <<"openslide", "quickhash-1">>, value |-> "hash"]},
            associated_images |-> {[name |-> "thumbnail", dir |-> 0]}]
  /\ opc = "done" /\ oret = TRUE /\ oerr = <<>>
  /\ dirs = <<[tiled |-> TRUE, comp |-> COMPRESSION_JPEG, sub |-> Unread, desc |-> "?",
               w |-> 800, h |-> Unread],
              [tiled |-> TRUE, comp |-> COMPRESSION_JPEG, sub |-> 3, desc |-> "?",
               w |-> 500, h |-> 500]>>
  /\ curdir = 0 /\ tn_dir = 0
  /\ level_array = <<>> /\ arr = "unwrapped" /\ cached_tiff = "put"
  /\ pool = [created |-> 1, destroyed |-> 0, out |-> 0, puts |-> 1]
  /\ heap = [level |-> [d \in DirIdx |-> IF d <= 1 THEN [alloc |-> 1, free |-> 0] ELSE NoObj],
             grid |-> [d \in DirIdx |-> IF d <= 1 THEN [alloc |-> 1, free |-> 0] ELSE NoObj],
             data |-> [alloc |-> 1, free |-> 0]]
  /\ topdir = <<1, 0>>

PaintInit == Opened /\ PaintIdle

PaintNext ==
  \/ \E t \in Painters : paint_region(t)
  \/ Evict
  \/ destroy

\* concurrent paint_region calls on the opened slide, then destroy
SpecPaint == PaintInit /\ [][PaintNext]_vars

----------------------------------------------------------------------------
(* Properties of optra_open (checked under SpecOpen).                      *)

OpenFailed == opc = "done" /\ oret = FALSE
OpenSucceeded == opc = "done" /\ oret = TRUE

\* the handle and XML steps succeeded, so the walk ran
WalkRan == cached_tiff # "NULL" /\ tl.hasXml /\ parse_initial_xml({}, tl.xml).ok

\* directory d was read by the handle
Visited(d) == d + 1 <= Len(dirs)

\* the walk found d tiled, not the first, with the reduced-resolution bit set
MetAsReduced(d) ==
  /\ Visited(d) /\ d # 0
  /\ dirs[d + 1].tiled
  /\ dirs[d + 1].sub \notin {Unread, Absent}
  /\ IsReduced(dirs[d + 1].sub)

\* the walk registered d as an associated image under its description
MetAsAssociated(d) ==
  /\ Visited(d) /\ d # 0
  /\ dirs[d + 1].tiled
  /\ dirs[d + 1].sub \notin {Unread, Absent}
  /\ ~IsReduced(dirs[d + 1].sub)
  /\ dirs[d + 1].desc \notin {"?", "-"}

\* C1 as stated: after a failed optra_open the Slide Handle is exactly what it
\* was before the call, properties and associated images included.
C1_HandleUntouchedOnFailure == OpenFailed => osr = OsrInit

\* The part of the frame the code does keep: after a failed optra_open the
\* level sequence, the level count, the backend-private data and the ops of
\* the Slide Handle are what they were before the call; the property mapping
\* is either untouched or holds what the XML step inserted, and every
\* associated image present is one the walk or the thumbnail step of this
\* call registered.
C1_LevelsAndDataUntouchedOnFailure ==
  OpenFailed =>
    /\ osr.levels_set = OsrInit.levels_set
    /\ osr.levels = OsrInit.levels
    /\ osr.level_count = OsrInit.level_count
    /\ osr.data = OsrInit.data
    /\ osr.ops = OsrInit.ops
    /\ osr.properties \in {OsrInit.properties,
                           parse_initial_xml(OsrInit.properties, tl.xml).properties}
    /\ \A e \in osr.associated_images :
         \/ e.name = "thumbnail" /\ e.dir = tn_dir
         \/ MetAsAssociated(e.dir) /\ dirs[e.dir + 1].desc = e.name

\* a failure after the XML step inserted properties, the walk registered an
\* associated image and a level was built
C1_Witness ==
  /\ OpenFailed
  /\ osr.properties # {}
  /\ osr.associated_images # {}
  /\ \E d \in DirIdx : heap.level[d].alloc = 1
  /\ osr.level_count = 0

\* C2: after a failed optra_open every Level allocated during the walk and
\* every Tile Grid created has been freed exactly once (the level whose own
\* initialisation failed included), the level container has been freed, the
\* decoder handle that was checked out has been returned exactly once (none
\* if none was obtained), and the pool created by the call has been
\* destroyed exactly once.
C2_FailureReleasesEverything ==
  OpenFailed =>
    /\ \A d \in DirIdx :
         /\ heap.level[d].alloc <= 1 /\ heap.level[d].free = heap.level[d].alloc
         /\ heap.grid[d].alloc <= 1 /\ heap.grid[d].free = heap.grid[d].alloc
    /\ heap.data.alloc = 0
    /\ arr = "freed"
    /\ pool.out = 0
    /\ pool.puts = (IF cached_tiff = "NULL" THEN 0 ELSE 1)
    /\ pool.created = 1 /\ pool.destroyed = 1

\* a failure in the initialisation of the third level, two levels being
\* in the array
C2_Witness ==
  /\ OpenFailed
  /\ oerr = <<E_LEVEL>>
  /\ Cardinality({d \in DirIdx : heap.grid[d].alloc = 1}) = 2
  /\ Cardinality({d \in DirIdx : heap.level[d].alloc = 1}) = 3

\* C3: after a successful optra_open the installed level sequence is ordered
\* by non-increasing image width.
C3_LevelsSortedByWidth ==
  OpenSucceeded =>
    \A i, j \in 1..Len(osr.levels) :
      i < j => osr.levels[i].image_w >= osr.levels[j].image_w

\* three levels, two of equal width, installed in another order than the
\* walk met them
C3_Witness ==
  /\ OpenSucceeded
  /\ Len(osr.levels) = 3
  /\ osr.levels[1].dir > osr.levels[2].dir
  /\ osr.levels[2].image_w = osr.levels[3].image_w
  /\ osr.levels[1].image_w > osr.levels[2].image_w

\* the directories the walk met as reduced-resolution with both dimensions
\* above MIN_THUMBNAIL_DIM
Qualifying ==
  {d \in DirIdx : /\ MetAsReduced(d)
                  /\ dirs[d + 1].w > MIN_THUMBNAIL_DIM
                  /\ dirs[d + 1].h > MIN_THUMBNAIL_DIM}

Max(S) == CHOOSE x \in S : \A y \in S : y <= x

\* the thumbnail step has registered "thumbnail"
ThumbnailRegistered == opc \in {"sort", "commit"} \/ OpenSucceeded

\* C4: when the walk met reduced-resolution directories with width and height
\* both above 500, the directory registered as "thumbnail" is the one of
\* highest index among them, whatever their sizes; a reduced-resolution
\* directory with width <= 500 or height <= 500 does not replace it.
C4_LastQualifyingIsThumbnail ==
  (ThumbnailRegistered /\ Qualifying # {}) =>
    \A e \in osr.associated_images :
      e.name = "thumbnail" => e.dir = Max(Qualifying)

\* two qualifying directories, the later one the larger, registered
C4_Witness ==
  /\ OpenSucceeded
  /\ Qualifying = {1, 2}
  /\ dirs[3].w > dirs[2].w
  /\ [name |-> "thumbnail", dir |-> 2] \in osr.associated_images

\* C5: after a successful optra_open the associated-image mapping has an
\* entry named "thumbnail".
C5_ThumbnailOnSuccess ==
  OpenSucceeded => \E e \in osr.associated_images : e.name = "thumbnail"

\* a success with an associated image of the walk beside the thumbnail
C5_Witness ==
  /\ OpenSucceeded
  /\ \E e \in osr.associated_images : e.name = "label"
  /\ \E e \in osr.associated_images : e.name = "thumbnail"

Unsupported(d) ==
  /\ Visited(d)
  /\ dirs[d + 1].comp # Absent
  /\ ~TIFFIsCODECConfigured(dirs[d + 1].comp)

\* C6 as stated: if any directory visited by the walk carries an unsupported
\* compression code, optra_open fails with the unsupported-compression
\* error, whatever the directory's tiled flag, subfile-type flag or position.
C6_AnyUnsupportedCompressionFails ==
  (opc = "done" /\ WalkRan /\ \E d \in DirIdx : Unsupported(d)) =>
    (oret = FALSE /\ oerr = <<E_COMP>>)

\* the walk takes d to the compression check: d is tiled and is the first
\* directory, or carries the reduced-resolution flag and a readable width
\* and height
ReachesCompressionCheck(d) ==
  /\ Visited(d)
  /\ dirs[d + 1].tiled
  /\ \/ d = 0
     \/ /\ MetAsReduced(d)
        /\ dirs[d + 1].w \notin {Unread, Absent}
        /\ dirs[d + 1].h \notin {Unread, Absent}

\* C6, amended: if a directory that the walk takes to the compression check
\* carries an unsupported compression code, optra_open fails with the
\* unsupported-compression error.
C6_CheckedUnsupportedCompressionFails ==
  (opc = "done" /\ WalkRan /\
     \E d \in DirIdx : ReachesCompressionCheck(d) /\ Unsupported(d)) =>
    (oret = FALSE /\ oerr = <<E_COMP>>)

\* the failure on a reduced-resolution directory after two levels were built
C6_Witness ==
  /\ OpenFailed
  /\ oerr = <<E_COMP>>
  /\ ReachesCompressionCheck(2) /\ Unsupported(2)
  /\ Len(dirs) = 3

\* C13 as stated: on every failing path of optra_open the error slot is
\* written exactly once, and no path sets an error on a slot a callee has
\* already filled.
C13_ErrorSetExactlyOnce == OpenFailed => Len(oerr) = 1

\* the directories that are levels, in the working array or on the handle
LevelDirs ==
  {level_array[i].dir : i \in 1..Len(level_array)} \cup
  {osr.levels[i].dir : i \in 1..Len(osr.levels)}

\* the walk has gone past directory d without failing
WalkPast(d) ==
  \/ opc = "next" /\ curdir = d
  \/ opc \in {"dir", "comp", "level", "next"} /\ curdir > d
  \/ opc \in {"thumb", "sort", "commit"}
  \/ OpenSucceeded

\* optra_detect accepted the container before optra_open was called
Accepted == opc # "idle" /\ dret = TRUE

\* C16: a tiled directory other than the first is classified by its
\* subfile-type flag alone.  One whose flag is not reduced-resolution is
\* registered under its description when the walk passes it and is never a
\* level nor the thumbnail candidate; one whose flag is reduced-resolution
\* never has its description read and is registered only by the thumbnail
\* step, whatever its dimensions; a non-tiled directory, or a non-first one
\* with an unreadable flag, is no level, no associated image and no
\* thumbnail candidate; the first directory, if tiled, is a level once the
\* walk has passed it.
C16_ClassifiedBySubfileFlag ==
  \A d \in DirIdx : Visited(d) =>
    /\ (d # 0 /\ dirs[d + 1].tiled /\ dirs[d + 1].sub \notin {Unread, Absent}
          /\ ~IsReduced(dirs[d + 1].sub)) =>
         /\ d \notin LevelDirs
         /\ tn_dir # d
         /\ (opc = "next" /\ curdir = d) =>
              [name |-> dirs[d + 1].desc, dir |-> d] \in osr.associated_images
    /\ MetAsReduced(d) =>
         /\ dirs[d + 1].desc = "?"
         /\ \A e \in osr.associated_images :
              e.dir = d => (e.name = "thumbnail" /\ tn_dir = d)
    /\ (Accepted /\ (~dirs[d + 1].tiled \/ (d # 0 /\ dirs[d + 1].sub = Absent))) =>
         /\ d \notin LevelDirs
         /\ tn_dir # d
         /\ \A e \in osr.associated_images : e.dir # d
    /\ (d = 0 /\ dirs[1].tiled /\ WalkPast(0)) => 0 \in LevelDirs

\* a success on three directories: the first a level, the second an
\* associated image, the third reduced-resolution, above 500 px both ways,
\* a level and the thumbnail
C16_Witness ==
  /\ OpenSucceeded
  /\ Len(dirs) = 3
  /\ MetAsAssociated(1)
  /\ [name |-> "label", dir |-> 1] \in osr.associated_images
  /\ MetAsReduced(2) /\ 2 \in Qualifying
  /\ LevelDirs = {0, 2}
  /\ [name |-> "thumbnail", dir |-> 2] \in osr.associated_images

\* C17: the directory passed first to the fingerprint/property computation
\* is that of the last element of the width-sorted level sequence, whose
\* width is the minimum over all levels; the second directory passed is 0.
C17_TopLevelIsSmallest ==
  /\ (opc = "commit" /\ level_array # <<>>) =>
       /\ topdir[1] = level_array[Len(level_array)].dir
       /\ \A i \in 1..Len(level_array) :
            level_array[i].image_w >= level_array[Len(level_array)].image_w
       /\ topdir[2] = 0
  /\ (OpenSucceeded /\ osr.levels # <<>>) =>
       /\ topdir[1] = osr.levels[Len(osr.levels)].dir
       /\ \A i \in 1..Len(osr.levels) :
            osr.levels[i].image_w >= osr.levels[Len(osr.levels)].image_w
       /\ topdir[2] = 0

\* a slide of two levels, the first directory the narrower one and the one
\* passed to the fingerprint
C17_Witness ==
  /\ OpenSucceeded
  /\ Len(osr.levels) = 2
  /\ osr.levels[1].image_w > osr.levels[2].image_w
  /\ osr.levels[2].dir = 0
  /\ topdir = <<0, 0>>

\* C18: when optra_open reaches the fingerprint step for a container that
\* optra_detect accepted, the working level collection holds at least one
\* level, and the read of its last element never goes outside it.
C18_LevelArrayNotEmptyAtFingerprint ==
  /\ (opc = "sort" /\ Accepted) => Len(level_array) >= 1
  /\ opc = "crashed" => ~Accepted

\* the fingerprint step reached with one level after a skipped and an
\* associated-image directory
C18_Witness ==
  /\ opc = "sort" /\ Accepted
  /\ Len(level_array) = 1
  /\ Len(dirs) = 3
  /\ ~dirs[2].tiled
  /\ MetAsAssociated(2)

\* C19: when the walk met no reduced-resolution directory with width and
\* height both above 500, the directory registered as "thumbnail" is
\* directory 0; after every successful optra_open the thumbnail directory
\* is directory 0 or a reduced-resolution directory that is also a level.
C19_DefaultThumbnailIsFirstDirectory ==
  /\ (ThumbnailRegistered /\ Qualifying = {}) =>
       \A e \in osr.associated_images : e.name = "thumbnail" => e.dir = 0
  /\ OpenSucceeded =>
       \A e \in osr.associated_images : e.name = "thumbnail" =>
         \/ e.dir = 0
         \/ MetAsReduced(e.dir) /\ e.dir \in LevelDirs

\* a success whose only reduced-resolution directory is 600 x 500: the
\* thumbnail is directory 0
C19_Witness ==
  /\ OpenSucceeded
  /\ MetAsReduced(1)
  /\ dirs[2].w = 600 /\ dirs[2].h = 500
  /\ Qualifying = {}
  /\ [name |-> "thumbnail", dir |-> 0] \in osr.associated_images

----------------------------------------------------------------------------
(* Properties of optra_detect (checked under SpecDetect).                  *)

DetectReturned == dpc = "idle" /\ dcalls >= 1

\* the rejecting conditions, in the order of the claim, with their errors
RejectConditions ==
  << [holds |-> ~tl.present, err |-> E_NOT_TIFF],
     [holds |-> ~tl.tiled0, err |-> E_NOT_TILED],
     [holds |-> ~tl.hasXml, err |-> E_GET_BUFFER],
     [holds |-> \A i \in 1..Len(tl.xml) :
                  tl.xml[i].n # XML_ROOT_TAG /\ tl.xml[i].v # XML_ROOT_TAG,
      err |-> E_NO_MARKER],
     [holds |-> ~WellFormed(tl.xml), err |-> E_XML_PARSE],
     [holds |-> ~(Len(tl.xml) >= 2 /\ tl.xml[2].n = XML_ROOT_TAG), err |-> E_ROOT] >>

FirstRejecting ==
  CHOOSE i \in 1..Len(RejectConditions) :
    /\ RejectConditions[i].holds
    /\ \A j \in 1..(i - 1) : ~RejectConditions[j].holds

\* C7: optra_detect fails whenever the container description is absent,
\* directory 0 is not tiled, the XML packet is absent, the text lacks the
\* marker "ScanInfo", the packet does not parse, or the root element is not
\* "ScanInfo"; it succeeds when none holds; the first condition that holds,
\* in that order, is the one the error reports.
C7_DetectRejectsInOrder ==
  DetectReturned =>
    IF \E i \in 1..Len(RejectConditions) : RejectConditions[i].holds
      THEN dret = FALSE /\ derr = <<RejectConditions[FirstRejecting].err>>
      ELSE dret = TRUE /\ derr = <<>>

\* a packet with the marker that parses and whose root is another element:
\* rejected by the last check
C7_Witness ==
  /\ DetectReturned
  /\ strstr(tl.xml, XML_ROOT_TAG)
  /\ dret = FALSE
  /\ derr = <<E_ROOT>>

\* C8: optra_detect changes neither the container description nor the Slide
\* Handle, leaves no xmlDoc allocated on any return, and every call on the
\* same input returns what the first call returned, with the same error.
C8_DetectIsPure ==
  /\ tl \in Containers
  /\ osr = OsrInit
  /\ dpc = "idle" => liveDocs = 0
  /\ DetectReturned => (dret = dfirst.ret /\ derr = dfirst.err)

\* a third call that rejected at the root check, after a document was parsed
C8_Witness ==
  /\ dpc = "idle"
  /\ dcalls = 3
  /\ dret = FALSE
  /\ derr = <<E_ROOT>>

----------------------------------------------------------------------------
(* Properties of paint_region and read_tile (checked under SpecPaint).     *)

\* the positions of a paint_region call between obtaining the handle and
\* returning it
HoldsHandle(t) == pt[t].pc \in {"lookup", "miss", "draw", "unref", "put"}

\* C9: a paint_region call holds a decoder handle exactly from the moment it
\* obtained one until it returns, whether painting succeeded or failed, and
\* a call that obtained none holds none; so the handles checked out are as
\* many as the calls in progress past the acquisition, and none is out when
\* every call has returned.
C9_HandleReturnedOnEveryPath ==
  /\ \A t \in Painters : pt[t].handle <=> HoldsHandle(t)
  /\ pool.out = Cardinality({t \in Painters : HoldsHandle(t)})
  /\ (\A t \in Painters : pt[t].pc = "idle") => pool.out = 0
  /\ pool.puts + pool.out <= 1 + hist.calls

\* two calls in progress, one about to return after a failed tile
C9_Witness ==
  /\ pool.out = 2
  /\ \E t \in Painters : pt[t].pc = "put" /\ ~pt[t].success /\ pt[t].canvas # <<>>
  /\ \E t \in Painters : pt[t].pc = "draw"

\* C10: a read_tile call that starts after another read_tile of the same
\* tile returned true, with no eviction of the tile in between, finds the
\* entry in the cache: it decodes nothing, so the two calls made the one
\* decode of the first at most, and it paints the pixels the first call
\* painted.
C10_SecondReadHitsCache ==
  \A t \in Painters :
    pt[t].prior.settled =>
      /\ pt[t].pc # "miss"
      /\ pt[t].ndec = 0
      /\ pt[t].prior.ndec + pt[t].ndec <= 1
      /\ pt[t].pc \in {"draw", "unref"} => pt[t].tiledata = pt[t].prior.data

\* the second read of an edge tile, painted from the cache after the first
\* read decoded and clipped it
C10_Witness ==
  \E t \in Painters :
    /\ pt[t].pc = "unref"
    /\ pt[t].prior.settled
    /\ pt[t].prior.ndec = 1
    /\ pt[t].ndec = 0
    /\ pt[t].tiledata.clipped
    /\ pt[t].canvas = <<pt[t].prior.data>>

\* C11: when read_tile misses the cache and the decode or the clip fails,
\* the buffer it allocated is freed exactly once, the cache is left as it
\* was (no entry inserted), nothing is painted, no cache-entry reference is
\* taken or released, and read_tile returns failure with the error of the
\* decode or clip.
C11_FailedMissFreesBufferCachesNothing ==
  [][\A t \in Painters :
       (pt[t].pc = "miss" /\ pt'[t].pc = "put") =>
         /\ pt'[t].balloc = 1 /\ pt'[t].bfree = 1
         /\ cache' = cache
         /\ pt'[t].canvas = pt[t].canvas
         /\ pt'[t].held = pt[t].held /\ pt'[t].held = 0
         /\ pt'[t].success = FALSE
         /\ \E e \in {E_READ_TILE, E_CLIP} : pt'[t].err = Append(pt[t].err, e)]_vars

\* a call whose second tile failed to clip after its first tile was painted,
\* with the first tile still in the cache
C11_Witness ==
  \E t \in Painters :
    /\ pt[t].pc = "put" /\ ~pt[t].success
    /\ pt[t].err = <<E_CLIP>>
    /\ pt[t].balloc = 1 /\ pt[t].bfree = 1
    /\ Len(pt[t].canvas) = 1
    /\ CacheLookup(<<pt[t].level, 0, 0>>) # 0
    /\ CacheLookup(pt[t].key) = 0

\* the painters drawing from entry i
Referencing(i) == {t \in Painters : pt[t].pc \in {"draw", "unref"} /\ pt[t].entry = i}

\* C12: a read_tile call holds exactly one cache-entry reference from before
\* it paints until after, and none otherwise; the entry it paints from is
\* live and holds the pixels the call draws, whatever the other painters and
\* the evictions do; an entry's reference count is the number of painters
\* drawing from it, and is zero once all painters have returned.
C12_OneReferenceWhileCompositing ==
  /\ \A t \in Painters :
       IF pt[t].pc \in {"draw", "unref"}
         THEN /\ pt[t].held = 1
              /\ pt[t].entry \in CacheSlots
              /\ cache[pt[t].entry].live
              /\ cache[pt[t].entry].data = pt[t].tiledata
         ELSE pt[t].held = 0
  /\ \A i \in CacheSlots : cache[i].refs = Cardinality(Referencing(i))
  /\ (\A t \in Painters : pt[t].pc = "idle") => \A i \in CacheSlots : cache[i].refs = 0

\* two painters drawing from one entry that the cache has already evicted
C12_Witness ==
  \E i \in CacheSlots :
    /\ cache[i].live /\ ~cache[i].inCache
    /\ cache[i].refs = 2
    /\ Referencing(i) = Painters

\* C14 as stated: a paint_region call that returns failure leaves none of
\* its tiles on the caller's drawing context.
C14_NoPartialCanvas ==
  \A t \in Painters : (pt[t].pc = "idle" /\ pt[t].ret = "false") => pt[t].canvas = <<>>

\* C20 as stated: with no eviction, a tile is decoded at most once and at
\* most one pixel buffer is inserted in the cache for it, however the
\* paint_region calls interleave.
C20_DecodedAtMostOnce ==
  \A k \in Keys : ~hist.evicted[k] => (hist.dec[k] <= 1 /\ hist.ins[k] <= 1)

\* C20, amended: with no eviction, a tile is decoded only by calls whose
\* cache lookup came before the first insertion of the tile, at most once by
\* each; each decode is inserted at most once, and the cache stores at most
\* one buffer under the key at a time.
C20_DecodedOnlyByEarlyLookups ==
  \A k \in Keys :
    /\ ~hist.evicted[k] => (hist.dec[k] <= hist.early[k] /\ hist.ins[k] <= hist.dec[k])
    /\ Cardinality({i \in CacheSlots : cache[i].inCache /\ cache[i].key = k}) <= 1

\* both painters missed, decoded and inserted the same tile: the second
\* insertion took the place of the first, which its painter still draws from
C20_Witness ==
  \E k \in Keys :
    /\ ~hist.evicted[k]
    /\ hist.early[k] = 2 /\ hist.dec[k] = 2 /\ hist.ins[k] = 2
    /\ \E i, j \in CacheSlots :
         /\ cache[i].inCache /\ cache[i].key = k
         /\ cache[j].live /\ ~cache[j].inCache /\ cache[j].key = k

----------------------------------------------------------------------------
(* Properties of destroy (checked under SpecPaint).                        *)

\* C15: after a successful optra_open, completed paint_region calls and one
\* destroy, the handle pool, every level of the installed sequence and its
\* grid, the level sequence container and the private data have each been
\* released exactly once, and nothing optra_open created stays allocated.
C15_DestroyReleasesEverything ==
  opc = "destroyed" =>
    /\ pool.created = 1 /\ pool.destroyed = 1 /\ pool.out = 0
    /\ heap.data.alloc = 1 /\ heap.data.free = 1
    /\ arr = "freed"
    /\ \A i \in 1..Len(osr.levels) :
         /\ heap.level[osr.levels[i].dir].free = 1
         /\ heap.grid[osr.levels[i].dir].free = 1
    /\ \A d \in DirIdx :
         /\ heap.level[d].free = heap.level[d].alloc
         /\ heap.grid[d].free = heap.grid[d].alloc

\* destroy after two paint_region calls, one returned true and one false
C15_Witness ==
  /\ opc = "destroyed"
  /\ hist.calls = 2
  /\ \E t \in Painters : pt[t].ret = "true"
  /\ \E t \in Painters : pt[t].ret = "false"
  /\ Len(osr.levels) = 2

====
